---------------------------- MODULE Spec2Model ----------------------------
(***************************************************************************)
(* Location-transparent service dispatch (pete0877/microservice).          *)
(*                                                                         *)
(* Every host runs one process holding the MathService singleton           *)
(* (MicroServiceSingleton), the dispatcher's instance_registry             *)
(* (MicroServiceDispatcher) and a pool of worker threads.  A worker runs   *)
(* MathService.Instance(), a wrapped method call (MicroServiceMethod's     *)
(* inner) or an inbound dispatch; a forwarded call is an HTTP POST that a  *)
(* worker of the addressed host serves through its own dispatch.           *)
(*                                                                         *)
(* Text is a sequence of characters; a character is a TLA+ string, and a   *)
(* run of characters that holds no separator may be written as one         *)
(* (<<"MathService">>).                                                    *)
(***************************************************************************)
EXTENDS Integers, Sequences, FiniteSets, TLC

VARIABLES
    config,             \* host -> the .ini file that host reads
    singleton,          \* host -> MicroServiceSingleton._service_instance (0: no such attribute)
    heap,               \* host -> the service instances constructed there, by id
    instance_registry,  \* host -> MicroServiceDispatcher.instance_registry
    wk                  \* worker -> its frame: position and locals

vars == <<config, singleton, heap, instance_registry, wk>>

----------------------------------------------------------------------------
(* Bounds *)

MaxWorkers == 2
MaxLen == 4

----------------------------------------------------------------------------
(* Text *)

Range(s) == {s[i] : i \in 1..Len(s)}

SeqsUpTo(S, n) == UNION {[1..k -> S] : k \in 0..n}

RECURSIVE Find(_, _, _)
\* str.find: the first index >= i of character c in s, 0 when there is none
Find(s, c, i) ==
    IF i > Len(s) THEN 0
    ELSE IF s[i] = c THEN i
    ELSE Find(s, c, i + 1)

RECURSIVE Split(_, _)
\* str.split(sep) for a one-character separator: "".split(",") is [""]
Split(s, sep) ==
    LET k == Find(s, sep, 1)
    IN  IF k = 0 THEN <<s>>
        ELSE <<SubSeq(s, 1, k - 1)>> \o Split(SubSeq(s, k + 1, Len(s)), sep)

----------------------------------------------------------------------------
(* Hosts, the service class and the .ini file *)

Procs == {"a", "b"}

Workers == 1..MaxWorkers

\* socket.gethostname() on host p
Hostname(p) == <<p>>

\* MathService.__name__, and the other service of the sample .ini file
MathService == <<"MathService">>
EchoService == <<"EchoService">>
ServiceNames == {MathService, EchoService}

\* An .ini file: found is whether settings.read() finds it, has_services whether
\* [MICROSERVICE] services is there, has_servers whether [MathService] servers is.
IniFile(services, servers) ==
    [found |-> TRUE, has_services |-> TRUE, services |-> services,
     has_servers |-> TRUE, servers |-> servers]

IniMissing == [IniFile(<<>>, <<>>) EXCEPT !.found = FALSE]
IniNoServices == [IniFile(<<>>, <<>>) EXCEPT !.has_services = FALSE]
IniNoServers(services) == [IniFile(services, <<>>) EXCEPT !.has_servers = FALSE]

----------------------------------------------------------------------------
(* Service instances *)

AttrNames == {<<"hostname">>, <<"service_name">>, <<"servers">>, <<"proxy_to_remote">>}
MethodNames == {<<"add_numbers">>}

\* A freshly constructed MathService(): it has no instance attribute yet.
\* attrs is the set of the attributes that exist; the other fields hold their values.
NewInstance ==
    [attrs |-> {}, hostname |-> <<>>, service_name |-> <<>>,
     servers |-> <<>>, proxy_to_remote |-> FALSE]

\* host_plus_port.split(':')[0]
HostPart(host_plus_port) == Split(host_plus_port, ":")[1]

\* The same test on the addresses as configured, port suffix and all.
ProxyToRemote_NoStrip(hostname, servers) ==
    hostname \notin Range(servers)

\* service_instance.hostname not in server_names
ProxyToRemote(hostname, servers) ==
    LET server_names == [i \in 1..Len(servers) |-> HostPart(servers[i])]
    IN  hostname \notin Range(server_names)

\* _configure_instance: the attributes it sets on the instance, and the
\* exception it raises if any ("" when none)
configure_instance(ini, hostname, service_name) ==
    LET named == [NewInstance EXCEPT !.attrs = {<<"hostname">>, <<"service_name">>},
                                     !.hostname = hostname,
                                     !.service_name = service_name]
        all_registered_services == Split(ini.services, ",")
        servers == Split(ini.servers, ",")
        listed == [named EXCEPT !.attrs = @ \cup {<<"servers">>}, !.servers = servers]
    IN  IF ~ini.found
            THEN [inst |-> named, raised |-> "IOError"]
        ELSE IF ~ini.has_services
            THEN [inst |-> named, raised |-> "Exception"]
        ELSE IF service_name \notin Range(all_registered_services)
            THEN [inst |-> named, raised |-> "Exception"]
        ELSE IF ~ini.has_servers
            THEN [inst |-> named, raised |-> "NoOptionError"]
        ELSE IF Len(servers) = 0
            THEN [inst |-> listed, raised |-> "Exception"]
        ELSE [inst |-> [listed EXCEPT !.attrs = @ \cup {<<"proxy_to_remote">>},
                                      !.proxy_to_remote = ProxyToRemote(hostname, servers)],
              raised |-> ""]

----------------------------------------------------------------------------
(* Python values, their text, and JSON *)

\* A value is an int, a tuple or a list of ints, or a text; n holds the numbers
\* and s the characters.  NoValue is the absence of one (a keyword not passed).
PyInt(k) == [t |-> "int", n |-> <<k>>, s |-> <<>>]
PyTuple(q) == [t |-> "tuple", n |-> q, s |-> <<>>]
PyList(q) == [t |-> "list", n |-> q, s |-> <<>>]
PyText(s) == [t |-> "text", n |-> <<>>, s |-> s]
\* A reference to service instance i: the self of a method call
PyRef(i) == [t |-> "instance", n |-> <<i>>, s |-> <<>>]
NoValue == [t |-> "none", n |-> <<>>, s |-> <<>>]

\* Keyword arguments: add_numbers' own a and b, and c for any other name
Kwargs(a, b, c) == [a |-> a, b |-> b, c |-> c]
NoKwargs == Kwargs(NoValue, NoValue, NoValue)

Digits == <<"0", "1", "2", "3", "4", "5", "6", "7", "8", "9">>

RECURSIVE NatToStr(_)
NatToStr(k) ==
    IF k < 10 THEN <<Digits[k + 1]>>
    ELSE NatToStr(k \div 10) \o <<Digits[(k % 10) + 1]>>

\* The digits without the sign
IntToStr_NoSign(k) == IF k < 0 THEN NatToStr(-k) ELSE NatToStr(k)

\* str(k) of an int
IntToStr(k) == IF k < 0 THEN <<"-">> \o NatToStr(-k) ELSE NatToStr(k)

RECURSIVE CommaList(_)
\* ", ".join(str(k) for k in q)
CommaList(q) ==
    IF Len(q) = 0 THEN <<>>
    ELSE IF Len(q) = 1 THEN IntToStr(q[1])
    ELSE IntToStr(q[1]) \o <<",", " ">> \o CommaList(Tail(q))

\* str(value)
Str(v) ==
    CASE v.t = "int" -> IntToStr(v.n[1])
      [] v.t = "tuple" -> <<"(">> \o CommaList(v.n)
                          \o (IF Len(v.n) = 1 THEN <<",">> ELSE <<>>) \o <<")">>
      [] v.t = "list" -> <<"[">> \o CommaList(v.n) \o <<"]">>
      [] v.t = "text" -> v.s
      [] OTHER -> <<"None">>

RECURSIVE StrAll(_)
\* ", ".join(repr(v) for v in values), the values being ints, tuples and lists
StrAll(values) ==
    IF Len(values) = 0 THEN <<>>
    ELSE IF Len(values) = 1 THEN Str(values[1])
    ELSE Str(values[1]) \o <<",", " ">> \o StrAll(Tail(values))

\* str(args) of the args list
StrArgs(args) == <<"[">> \o StrAll(args) \o <<"]">>

\* str(kwargs) of the kwargs dict, its keys decoded from JSON
StrKwargs(kwargs) ==
    LET item(k, v) == IF v = NoValue THEN <<>> ELSE <<<<"u'", k, "'", ":", " ">> \o Str(v)>>
        items == item("a", kwargs.a) \o item("b", kwargs.b) \o item("c", kwargs.c)
    IN  <<"{">> \o (IF Len(items) = 0 THEN <<>>
                    ELSE IF Len(items) = 1 THEN items[1]
                    ELSE IF Len(items) = 2 THEN items[1] \o <<",", " ">> \o items[2]
                    ELSE items[1] \o <<",", " ">> \o items[2] \o <<",", " ">> \o items[3])
        \o <<"}">>

\* JSON has numbers, arrays and strings: a tuple is written as an array
JsonDumps(v) ==
    CASE v.t = "int" -> [t |-> "number", n |-> v.n, s |-> <<>>]
      [] v.t \in {"tuple", "list"} -> [t |-> "array", n |-> v.n, s |-> <<>>]
      [] v.t = "text" -> [t |-> "string", n |-> <<>>, s |-> v.s]
      [] OTHER -> NoValue

\* and an array is read back as a list
JsonLoads(j) ==
    CASE j.t = "number" -> PyInt(j.n[1])
      [] j.t = "array" -> PyList(j.n)
      [] j.t = "string" -> PyText(j.s)
      [] OTHER -> NoValue

\* A request body: a JSON object that may hold args and kwargs, another JSON
\* value ("array"), or text that is no JSON ("malformed")
JsonBody(has_args, args, has_kwargs, kwargs) ==
    [kind |-> "object", has_args |-> has_args, args |-> args,
     has_kwargs |-> has_kwargs, kwargs |-> kwargs]

NoBody == JsonBody(FALSE, <<>>, FALSE, NoKwargs)
ArrayBody == [NoBody EXCEPT !.kind = "array"]
MalformedBody == [NoBody EXCEPT !.kind = "malformed"]

\* json=post_json of requests.post, post_json = {'args': method_args, 'kwargs': kwargs}
DumpEnvelope(method_args, kwargs) ==
    JsonBody(TRUE, [i \in 1..Len(method_args) |-> JsonDumps(method_args[i])],
             TRUE, Kwargs(JsonDumps(kwargs.a), JsonDumps(kwargs.b), JsonDumps(kwargs.c)))

\* post_json.get('args', []) and post_json.get('kwargs', {}) of request.json
LoadArgs(body) ==
    IF body.has_args THEN [i \in 1..Len(body.args) |-> JsonLoads(body.args[i])] ELSE <<>>

LoadKwargs(body) ==
    IF body.has_kwargs
    THEN Kwargs(JsonLoads(body.kwargs.a), JsonLoads(body.kwargs.b), JsonLoads(body.kwargs.c))
    ELSE NoKwargs

----------------------------------------------------------------------------
(* MathService.add_numbers *)

\* a + b
Add(a, b) ==
    CASE a.t = "int" /\ b.t = "int" -> PyInt(a.n[1] + b.n[1])
      [] a.t = "tuple" /\ b.t = "tuple" -> PyTuple(a.n \o b.n)
      [] a.t = "list" /\ b.t = "list" -> PyList(a.n \o b.n)
      [] a.t = "text" /\ b.t = "text" -> PyText(a.s \o b.s)
      [] OTHER -> NoValue

\* add_numbers(self, a=0, b=0) called with *args, **kwargs: what it returns, or
\* the TypeError of a call its signature or + rejects
add_numbers(args, kwargs) ==
    LET bad_call == \/ Len(args) > 2
                    \/ kwargs.c # NoValue
                    \/ Len(args) >= 1 /\ kwargs.a # NoValue
                    \/ Len(args) >= 2 /\ kwargs.b # NoValue
        a == IF Len(args) >= 1 THEN args[1]
             ELSE IF kwargs.a # NoValue THEN kwargs.a ELSE PyInt(0)
        b == IF Len(args) >= 2 THEN args[2]
             ELSE IF kwargs.b # NoValue THEN kwargs.b ELSE PyInt(0)
    IN  IF bad_call \/ Add(a, b) = NoValue
        THEN [raised |-> "TypeError", value |-> NoValue]
        ELSE [raised |-> "", value |-> Add(a, b)]

----------------------------------------------------------------------------
(* Worker frames *)

\* An HTTP POST to http://<to>/microservice/<service_class>/<service_method>/
NoRequest ==
    [to |-> <<>>, service_class |-> <<>>, service_method |-> <<>>, body |-> NoBody]

NoResponse == [status |-> 0, body |-> <<>>]

IdleFrame ==
    [pc |-> "idle", host |-> "a", op |-> "",
     service_instance |-> 0,        \* the instance a local variable refers to
     raised |-> "",                 \* the exception that left the operation
     \* dispatch: the request served, and who awaits the response (0: a client outside)
     client |-> 0, service_class |-> <<>>, service_method |-> <<>>, body |-> NoBody,
     original_proxy_to_remote |-> FALSE,
     caught |-> "",                 \* the exception dispatch's except clause caught
     \* the method call: its arguments, what it returned, the message of what it raised
     args |-> <<>>, kwargs |-> NoKwargs, result |-> NoValue, error |-> <<>>,
     route |-> "",                  \* inner ran the method ("local") or forwarded ("remote")
     \* inner's forwarding: the server picked, the POSTs issued, the last request
     \* and the response to it
     random_server |-> <<>>, posts |-> 0, request |-> NoRequest, response |-> NoResponse,
     reply |-> NoResponse]          \* the response dispatch returned

At(w, pc) == wk[w].pc = pc

\* Thread slots are interchangeable: a new operation takes the lowest idle one.
FreeWorker(w) ==
    /\ At(w, "idle")
    /\ \A v \in Workers : v < w => ~At(v, "idle")

----------------------------------------------------------------------------
(* MicroServiceSingleton.Instance *)

\* try: return self._service_instance / except AttributeError
InstanceTry(w, p) ==
    /\ FreeWorker(w)
    /\ wk' = [wk EXCEPT ![w] =
                [IdleFrame EXCEPT !.host = p, !.op = "Instance",
                                  !.pc = IF singleton[p] # 0 THEN "have_inst" ELSE "inst_new",
                                  !.service_instance = singleton[p]]]
    /\ UNCHANGED <<config, singleton, heap, instance_registry>>

\* self._service_instance = self._service_class()
InstanceNew(w) ==
    /\ At(w, "inst_new")
    /\ LET p == wk[w].host
       IN  /\ heap' = [heap EXCEPT ![p] = Append(@, NewInstance)]
           /\ singleton' = [singleton EXCEPT ![p] = Len(heap[p]) + 1]
    /\ wk' = [wk EXCEPT ![w].pc = "inst_conf"]
    /\ UNCHANGED <<config, instance_registry>>

\* self._configure_instance(self._service_instance, self._service_class)
Configure(w) ==
    /\ At(w, "inst_conf")
    /\ LET p == wk[w].host
           i == singleton[p]
           r == configure_instance(config[p], Hostname(p), MathService)
       IN  /\ heap' = [heap EXCEPT ![p][i] =
                         [attrs |-> @.attrs \cup r.inst.attrs,
                          hostname |-> r.inst.hostname,
                          service_name |-> r.inst.service_name,
                          servers |-> IF <<"servers">> \in r.inst.attrs
                                      THEN r.inst.servers ELSE @.servers,
                          proxy_to_remote |-> IF <<"proxy_to_remote">> \in r.inst.attrs
                                              THEN r.inst.proxy_to_remote
                                              ELSE @.proxy_to_remote]]
           /\ wk' = [wk EXCEPT ![w].raised = r.raised,
                               ![w].pc = IF r.raised = "" THEN "inst_reg" ELSE "raised"]
    /\ UNCHANGED <<config, singleton, instance_registry>>

\* The mapping stored only when the name has no entry yet
register_service_instance_KeepFirst(p, service_name, service_instance) ==
    instance_registry' =
        IF instance_registry[p][service_name] = 0
        THEN [instance_registry EXCEPT ![p][service_name] = service_instance]
        ELSE instance_registry

\* MicroServiceDispatcher.instance_registry[service_name] = service_instance
register_service_instance(p, service_name, service_instance) ==
    instance_registry' = [instance_registry EXCEPT ![p][service_name] = service_instance]

\* MicroServiceDispatcher.register_service_instance(name, self._service_instance)
InstanceRegister(w) ==
    /\ At(w, "inst_reg")
    /\ register_service_instance(wk[w].host, MathService, singleton[wk[w].host])
    /\ wk' = [wk EXCEPT ![w].pc = "inst_ret"]
    /\ UNCHANGED <<config, singleton, heap>>

\* return self._service_instance
InstanceReturn(w) ==
    /\ At(w, "inst_ret")
    /\ wk' = [wk EXCEPT ![w].service_instance = singleton[wk[w].host],
                        ![w].pc = "have_inst"]
    /\ UNCHANGED <<config, singleton, heap, instance_registry>>

----------------------------------------------------------------------------
(* The network and the responses *)

\* The host that answers at an address: the one named before the port
Peers(server) == {p \in Procs : Hostname(p) = HostPart(server)}

\* HTTPBadRequest(message), HTTPInternalServerError(message): the body carries
\* the message after the status line
HTTPBadRequest(message) ==
    [status |-> 400, body |-> <<"400 Bad Request">> \o message]

HTTPInternalServerError(message) ==
    [status |-> 500, body |-> <<"500 Internal Server Error">> \o message]

\* Response(result_response, status=200)
Response(result_response) == [status |-> 200, body |-> result_response]

\* What the web server answers when dispatch raises instead of returning
ServerError == [status |-> 500, body |-> <<"500 Internal Server Error">>]

\* The same message without the name
NotRegisteredMessage_NoName(service_class) ==
    <<"Micro service is not registered">>

NotRegisteredMessage(service_class) ==
    <<"Micro service '">> \o service_class \o <<"' is not registered">>

NoMethodMessage(service_class, service_method) ==
    <<"Micro service ">> \o service_class
        \o <<" does not have have method named '">> \o service_method \o <<"'">>

ProducedErrorMessage(service_class, service_method, args, kwargs, error) ==
    <<"Micro service ">> \o service_class \o <<".">> \o service_method
        \o <<"(args=">> \o StrArgs(args) \o <<", kwargs=">> \o StrKwargs(kwargs)
        \o <<") produced error: ">> \o error

\* str(error) of the exceptions the interpreter and the libraries raise
ErrorText(exception) ==
    CASE exception = "ValueError" -> <<"No JSON object could be decoded">>
      [] exception = "AttributeError" -> <<"object has no attribute">>
      [] exception = "NotCallable" -> <<"object is not callable">>
      [] exception = "TypeError" -> <<"unsupported operand or arguments">>
      [] exception = "ConnectionError" -> <<"Connection refused">>
      [] OTHER -> <<>>

----------------------------------------------------------------------------
(* MicroServiceMethod: inner *)

\* The calls a caller makes: positional and keyword arguments of add_numbers
Call(args, kwargs) == [args |-> args, kwargs |-> kwargs]

Calls ==
    { Call(<<PyInt(2), PyInt(3)>>, NoKwargs),
      Call(<<PyInt(8)>>, Kwargs(NoValue, PyInt(-24), NoValue)),
      Call(<<PyTuple(<<1>>), PyTuple(<<2>>)>>, NoKwargs),
      Call(<<PyInt(2), PyList(<<1>>)>>, NoKwargs) }

\* Where inner's caller goes on: dispatch's try block, or the direct caller
AfterInner(f) == IF f.op = "dispatch" THEN "d_finally" ELSE "called"

\* inner leaves by raising
InnerRaise(f, exception, error) ==
    [f EXCEPT !.pc = AfterInner(f),
              !.raised = IF f.op = "dispatch" THEN "" ELSE exception,
              !.caught = IF f.op = "dispatch" THEN exception ELSE "",
              !.error = error]

\* inner leaves by returning
InnerReturn(f, value) == [f EXCEPT !.pc = AfterInner(f), !.result = value]

\* return func(*args, **kwargs): args[0] is self
InnerLocal(f) ==
    LET r == add_numbers(Tail(f.args), f.kwargs)
    IN  IF r.raised = "" THEN InnerReturn([f EXCEPT !.route = "local"], r.value)
        ELSE InnerRaise([f EXCEPT !.route = "local"], r.raised, ErrorText(r.raised))

\* The arguments with self left in
MethodArgs_KeepSelf(args) == args

\* method_args = list(args)[1:]: strip the first argument since that's the self
MethodArgs(args) == Tail(args)

\* random_server chosen: build the envelope and POST it
InnerPost(f, random_server) ==
    LET post_json == DumpEnvelope(MethodArgs(f.args), f.kwargs)
        posted == [f EXCEPT !.route = "remote",
                            !.random_server = random_server,
                            !.posts = @ + 1,
                            !.request = [to |-> random_server,
                                         service_class |-> MathService,
                                         service_method |-> <<"add_numbers">>,
                                         body |-> post_json]]
    IN  IF Peers(random_server) = {}
        THEN InnerRaise(posted, "ConnectionError", ErrorText("ConnectionError"))
        ELSE [posted EXCEPT !.pc = "posted"]

\* Always the first of the servers
RandomChoice_First(servers) == {servers[1]}

\* random.choice(service_instance.servers): any one of the servers
RandomChoice(servers) == Range(servers)

\* if service_instance.proxy_to_remote: ... else: ...
Inner(w) ==
    /\ At(w, "inner")
    /\ LET f == wk[w]
           inst == heap[f.host][f.service_instance]
       IN  IF <<"proxy_to_remote">> \notin inst.attrs
           THEN wk' = [wk EXCEPT ![w] =
                         InnerRaise(f, "AttributeError", ErrorText("AttributeError"))]
           ELSE IF inst.proxy_to_remote
           THEN \E random_server \in RandomChoice(inst.servers) :
                    wk' = [wk EXCEPT ![w] = InnerPost(f, random_server)]
           ELSE wk' = [wk EXCEPT ![w] = InnerLocal(f)]
    /\ UNCHANGED <<config, singleton, heap, instance_registry>>

\* A response other than 200 answered by posting the request again
InnerResponse_Retry(f, response) ==
    IF response.status = 200
    THEN InnerReturn([f EXCEPT !.response = response], PyText(response.body))
    ELSE [f EXCEPT !.response = response, !.pc = "posted", !.posts = @ + 1]

\* if response.status_code == 200: return response.text / else: raise Exception(response.text)
InnerResponse(f, response) ==
    IF response.status = 200
    THEN InnerReturn([f EXCEPT !.response = response], PyText(response.body))
    ELSE InnerRaise([f EXCEPT !.response = response], "Exception", response.body)

\* Worker w's frame becomes f; a dispatch that has answered hands its response,
\* or the server's own when it raised, to the worker blocked in requests.post.
Deliver(base, w, f) ==
    [v \in Workers |->
        IF v = w THEN f
        ELSE IF f.pc = "responded" /\ v = f.client
            THEN InnerResponse(base[v], IF f.raised = "" THEN f.reply ELSE ServerError)
        ELSE base[v]]

\* service.add_numbers(...) on the instance Instance() returned
CallMethod(w, call) ==
    /\ At(w, "have_inst")
    /\ wk' = [wk EXCEPT ![w].op = "call", ![w].pc = "inner",
                        ![w].args = <<PyRef(wk[w].service_instance)>> \o call.args,
                        ![w].kwargs = call.kwargs]
    /\ UNCHANGED <<config, singleton, heap, instance_registry>>

----------------------------------------------------------------------------
(* MicroServiceDispatcher.dispatch *)

\* The method names and bodies a client outside sends
DispatchMethods == {<<"add_numbers">>, <<"servers">>, <<"subtract">>}

Bodies ==
    {DumpEnvelope(c.args, c.kwargs) : c \in Calls} \cup {ArrayBody, MalformedBody}

\* getattr(service_instance, name) finds an instance attribute or a method
HasAttr(inst, name) == name \in inst.attrs \cup MethodNames

\* The lookup and the save of the role, by a frame that holds the request
DispatchStart(f) ==
    LET p == f.host
        service_instance == instance_registry[p][f.service_class]
    IN  IF service_instance = 0
        THEN [f EXCEPT !.pc = "responded",
                       !.reply = HTTPBadRequest(NotRegisteredMessage(f.service_class))]
        ELSE IF <<"proxy_to_remote">> \notin heap[p][service_instance].attrs
        THEN [f EXCEPT !.pc = "responded", !.service_instance = service_instance,
                       !.raised = "AttributeError"]
        ELSE [f EXCEPT !.pc = "d_force", !.service_instance = service_instance,
                       !.original_proxy_to_remote =
                           heap[p][service_instance].proxy_to_remote]

\* A request from outside arrives at host p
DispatchLookup(w, p, service_class) ==
    /\ FreeWorker(w)
    /\ wk' = Deliver(wk, w, DispatchStart(
                [IdleFrame EXCEPT !.host = p, !.op = "dispatch",
                                  !.service_class = service_class]))
    /\ UNCHANGED <<config, singleton, heap, instance_registry>>

\* The POST of worker c arrives at the host it addresses
AcceptRequest(w, c) ==
    /\ FreeWorker(w)
    /\ At(c, "posted")
    /\ \E p \in Peers(wk[c].request.to) :
          wk' = Deliver([wk EXCEPT ![c].pc = "awaiting"], w, DispatchStart(
                  [IdleFrame EXCEPT !.host = p, !.op = "dispatch", !.client = c,
                                    !.service_class = wk[c].request.service_class,
                                    !.service_method = wk[c].request.service_method,
                                    !.body = wk[c].request.body]))
    /\ UNCHANGED <<config, singleton, heap, instance_registry>>

\* What the client of the dispatch in frame f sent: a client outside sends any
\* method name and any body, a forwarding worker what its request holds
SentMethods(f) == IF f.client = 0 THEN DispatchMethods ELSE {f.service_method}
SentBodies(f) == IF f.client = 0 THEN Bodies ELSE {f.body}

\* getattr(service_instance, self.service_method) and the try block up to the
\* call of method_object, which gets self before args
DispatchResolve(f, inst, service_method, body) ==
    LET g == [f EXCEPT !.service_method = service_method]
        args == <<PyRef(f.service_instance)>> \o LoadArgs(body)
    IN  IF ~HasAttr(inst, service_method)
        THEN [g EXCEPT !.pc = "responded",
                       !.reply = HTTPBadRequest(
                                     NoMethodMessage(g.service_class, service_method))]
        ELSE IF body.kind # "object"
        \* request.json or post_json.get raises, and the handler, formatting
        \* args and kwargs that were never assigned, raises in turn
        THEN [g EXCEPT !.pc = "d_finally", !.body = body,
                       !.caught = IF body.kind = "malformed"
                                  THEN "ValueError" ELSE "AttributeError",
                       !.error = ErrorText(IF body.kind = "malformed"
                                           THEN "ValueError" ELSE "AttributeError"),
                       !.raised = "UnboundLocalError"]
        ELSE IF service_method \notin MethodNames
        THEN [g EXCEPT !.pc = "d_finally", !.body = body,
                       !.args = args, !.kwargs = LoadKwargs(body),
                       !.caught = "TypeError",
                       !.error = ErrorText("NotCallable")]
        ELSE [g EXCEPT !.pc = "inner", !.body = body,
                       !.args = args, !.kwargs = LoadKwargs(body)]

\* service_instance.proxy_to_remote = False, then the steps to the call
DispatchForce(w) ==
    /\ At(w, "d_force")
    /\ LET f == wk[w]
           p == f.host
           i == f.service_instance
       IN  /\ heap' = [heap EXCEPT ![p][i].proxy_to_remote = FALSE]
           /\ \E service_method \in SentMethods(f) :
                IF HasAttr(heap[p][i], service_method)
                THEN \E body \in SentBodies(f) :
                        wk' = Deliver(wk, w, DispatchResolve(f, heap[p][i], service_method, body))
                ELSE wk' = Deliver(wk, w, DispatchResolve(f, heap[p][i], service_method, f.body))
    /\ UNCHANGED <<config, singleton, instance_registry>>

\* except Exception as error: the message of the 500 response
DispatchExcept(f) ==
    HTTPInternalServerError(ProducedErrorMessage(
        f.service_class, f.service_method, Tail(f.args), f.kwargs, f.error))

\* finally: service_instance.proxy_to_remote = original_proxy_to_remote, and
\* the response: of the except clause, or of the result
DispatchFinally(w) ==
    /\ At(w, "d_finally")
    /\ LET f == wk[w]
       IN  /\ heap' = [heap EXCEPT ![f.host][f.service_instance].proxy_to_remote =
                                        f.original_proxy_to_remote]
           /\ wk' = Deliver(wk, w,
                    [f EXCEPT !.pc = "responded",
                              !.reply = IF f.raised # "" THEN NoResponse
                                        ELSE IF f.caught # "" THEN DispatchExcept(f)
                                        ELSE Response(Str(f.result))])
    /\ UNCHANGED <<config, singleton, instance_registry>>

\* The operation is over and its thread takes the next one.
Finish(w) ==
    /\ wk[w].pc \in {"have_inst", "raised", "called", "responded"}
    /\ wk' = [wk EXCEPT ![w] = IdleFrame]
    /\ UNCHANGED <<config, singleton, heap, instance_registry>>

----------------------------------------------------------------------------
(* Role resolution over every short .ini servers value *)

Alphabet == {"a", "b", ":", ","}

ResolveInis ==
    {IniFile(<<"MathService", ",", "EchoService">>, s) : s \in SeqsUpTo(Alphabet, MaxLen)}

InitCommon ==
    /\ singleton = [p \in Procs |-> 0]
    /\ heap = [p \in Procs |-> <<>>]
    /\ instance_registry = [p \in Procs |-> [n \in ServiceNames |-> 0]]
    /\ wk = [w \in Workers |-> IdleFrame]

InitResolve ==
    /\ \E ini \in ResolveInis :
          config = [p \in Procs |-> IF p = "a" THEN ini
                                    ELSE IniFile(MathService, Hostname(p))]
    /\ InitCommon

\* No operation is in progress
Quiet == \A w \in Workers : At(w, "idle")

NextResolve ==
    \E w \in Workers :
        \/ Quiet /\ InstanceTry(w, "a")
        \/ InstanceNew(w)
        \/ Configure(w)
        \/ InstanceRegister(w)
        \/ InstanceReturn(w)
        \/ Finish(w)

SpecResolve == InitResolve /\ [][NextResolve]_vars

----------------------------------------------------------------------------
(* The deployment: two hosts that read the same .ini file *)

\* Host a is one of the configured servers, with a port; host b is not, and c
\* is a server nobody answers for.
Inis == {IniFile(MathService, <<"a", ":", "1", ",", "c">>)}

Init ==
    /\ \E ini \in Inis : config = [p \in Procs |-> ini]
    /\ InitCommon

Next ==
    \E w \in Workers :
        \/ \E p \in Procs : InstanceTry(w, p)
        \/ InstanceNew(w)
        \/ Configure(w)
        \/ InstanceRegister(w)
        \/ InstanceReturn(w)
        \/ \E call \in Calls : CallMethod(w, call)
        \/ Inner(w)
        \/ \E p \in Procs, service_class \in ServiceNames : DispatchLookup(w, p, service_class)
        \/ \E c \in Workers : AcceptRequest(w, c)
        \/ DispatchForce(w)
        \/ DispatchFinally(w)
        \/ Finish(w)

Spec == Init /\ [][Next]_vars

\* The same deployment serving one operation at a time: a view (Instance(), then
\* a method call) or a dispatch starts only when nothing else is in progress.
NextSeq ==
    \E w \in Workers :
        \/ Quiet /\ \E p \in Procs : InstanceTry(w, p)
        \/ InstanceNew(w)
        \/ Configure(w)
        \/ InstanceRegister(w)
        \/ InstanceReturn(w)
        \/ \E call \in Calls : CallMethod(w, call)
        \/ Inner(w)
        \/ Quiet /\ \E p \in Procs, service_class \in ServiceNames :
                        DispatchLookup(w, p, service_class)
        \/ \E c \in Workers : AcceptRequest(w, c)
        \/ DispatchForce(w)
        \/ DispatchFinally(w)
        \/ Finish(w)

\* and each host reads an .ini file of its own: a host that is told to forward
\* to b may be the server another host is told to forward to
SeqInis == Inis \cup {IniFile(MathService, <<"b">>)}

InitSeq ==
    /\ config \in [Procs -> SeqInis]
    /\ InitCommon

SpecSeq == InitSeq /\ [][NextSeq]_vars

\* The .ini files a host may find: the deployment's, none, one without the
\* [MICROSERVICE] services option, one without the [MathService] servers option,
\* one that declares another service only, and one whose servers value is empty
ConfigInis ==
    Inis \cup { IniMissing, IniNoServices, IniNoServers(MathService),
                IniFile(EchoService, <<"a">>), IniFile(MathService, <<>>) }

InitConfig ==
    /\ config \in [Procs -> ConfigInis]
    /\ InitCommon

\* One operation at a time on hosts whose configuration may be wrong
SpecConfig == InitConfig /\ [][NextSeq]_vars

----------------------------------------------------------------------------
(* Claims *)

RECURSIVE Join(_, _)
\* sep.join(parts)
Join(parts, sep) ==
    IF Len(parts) = 0 THEN <<>>
    ELSE IF Len(parts) = 1 THEN parts[1]
    ELSE parts[1] \o <<sep>> \o Join(Tail(parts), sep)

\* t occurs in s as a contiguous run
Contains(s, t) ==
    \E i \in 0..(Len(s) - Len(t)) : SubSeq(s, i + 1, i + Len(t)) = t

\* The instances of host p whose role has been resolved
Resolved(p) ==
    {i \in 1..Len(heap[p]) : <<"proxy_to_remote">> \in heap[p][i].attrs}

\* The text of an address before its first ':' (all of it when it has none)
BeforeColon(address) ==
    CHOOSE t \in {SubSeq(address, 1, k) : k \in 0..Len(address)} :
        /\ ":" \notin Range(t)
        /\ Len(t) = Len(address) \/ address[Len(t) + 1] = ":"

\* C4: for a declared service, the resolved role is Local exactly when the local
\* hostname is the text before the first ':' of one of the configured addresses,
\* and the stored servers are the comma-separated addresses of the .ini value,
\* all of them, unmodified and in order.
C4_RoleResolution ==
    \A p \in Procs : \A i \in Resolved(p) :
        LET inst == heap[p][i]
        IN  /\ inst.proxy_to_remote = FALSE
                <=> \E k \in 1..Len(inst.servers) :
                        BeforeColon(inst.servers[k]) = Hostname(p)
            /\ Join(inst.servers, ",") = config[p].servers
            /\ \A k \in 1..Len(inst.servers) : "," \notin Range(inst.servers[k])

\* A host resolved Local by an address that carries a port, among several addresses
C4_Witness ==
    \E i \in Resolved("a") :
        /\ ~heap["a"][i].proxy_to_remote
        /\ Len(heap["a"][i].servers) >= 2
        /\ Hostname("a") \notin Range(heap["a"][i].servers)

----------------------------------------------------------------------------
(* Claims about Instance() and the role *)

\* The role _configure_instance resolves on host p
ResolvedRole(p) == ProxyToRemote(Hostname(p), Split(config[p].servers, ","))

\* The dispatches of host p that have saved the role and not yet answered
InDispatch(p) ==
    {w \in Workers : /\ wk[w].op = "dispatch"
                     /\ wk[w].host = p
                     /\ wk[w].pc \in {"d_force", "inner", "posted", "awaiting", "d_finally"}}

\* A dispatch that found its service and has answered
Answered(w) ==
    /\ wk[w].op = "dispatch"
    /\ wk[w].pc = "responded"
    /\ wk[w].service_instance # 0

\* C1: under concurrent first access the service class is constructed once on
\* a host, and every worker that Instance() has returned to holds that instance.
C1_CreatedOnce ==
    \A p \in Procs :
        /\ Len(heap[p]) <= 1
        /\ \A v, w \in Workers :
              (wk[v].host = p /\ wk[w].host = p /\ At(v, "have_inst") /\ At(w, "have_inst"))
                  => wk[v].service_instance = wk[w].service_instance

\* C2: with dispatches served one at a time, a dispatch that has answered,
\* whatever it answered, has left the role as it found it.
C2_DispatchKeepsRole ==
    \A w \in Workers :
        Answered(w) /\ (wk[w].raised = "" \/ wk[w].caught # "")
            => heap[wk[w].host][wk[w].service_instance].proxy_to_remote
                   = wk[w].original_proxy_to_remote

\* C3: once concurrent dispatches for one service have all completed, its role
\* is again the role resolved at creation.  Stated of dispatches that all went
\* through the finally clause, one of which found the resolved role.
C3_RoleAfterConcurrentDispatches ==
    \A p \in Procs : \A v, w \in Workers :
        ( /\ v # w
          /\ InDispatch(p) = {}
          /\ Answered(v) /\ Answered(w)
          /\ wk[v].host = p /\ wk[w].host = p
          /\ wk[v].service_instance = wk[w].service_instance
          /\ wk[v].reply.status \in {200, 500} /\ wk[w].reply.status \in {200, 500}
          /\ wk[v].original_proxy_to_remote = ResolvedRole(p) )
            => heap[p][wk[v].service_instance].proxy_to_remote = ResolvedRole(p)

----------------------------------------------------------------------------
(* Claims about the responses of dispatch *)

\* C5: a dispatch to a registered service with a method name that is not an
\* invocable method, a non-callable attribute included, answers 400 and names
\* the method.
C5_UnknownMethodIs400 ==
    \A w \in Workers :
        Answered(w) /\ wk[w].service_method # <<>> /\ wk[w].service_method \notin MethodNames
            => /\ wk[w].raised = ""
               /\ wk[w].reply.status = 400
               /\ Contains(wk[w].reply.body, wk[w].service_method)

\* C6: for a registered service and an existing method, a failure raised while
\* the body is decoded or the method invoked makes dispatch return a 500 whose
\* body holds the service name, the method name, the arguments and the
\* failure's message; the failure does not leave dispatch as an exception.
C6_FailureIs500 ==
    \A w \in Workers :
        Answered(w) /\ wk[w].service_method \in MethodNames /\ wk[w].caught # ""
            => /\ wk[w].raised = ""
               /\ wk[w].reply.status = 500
               /\ Contains(wk[w].reply.body, wk[w].service_class)
               /\ Contains(wk[w].reply.body, wk[w].service_method)
               /\ Contains(wk[w].reply.body, StrArgs(Tail(wk[w].args)))
               /\ Contains(wk[w].reply.body, wk[w].error)

\* C7: a dispatch to a service name that is not in the registry answers 400,
\* names that service, and changes neither the registry nor any instance.
C7_UnregisteredIs400 ==
    [][\A w \in Workers :
          ( /\ wk[w].pc = "idle"
            /\ wk'[w].op = "dispatch"
            /\ instance_registry[wk'[w].host][wk'[w].service_class] = 0 )
              => /\ wk'[w].pc = "responded"
                 /\ wk'[w].raised = ""
                 /\ wk'[w].reply.status = 400
                 /\ Contains(wk'[w].reply.body, wk'[w].service_class)
                 /\ instance_registry' = instance_registry
                 /\ heap' = heap]_vars

\* EchoService is refused on a host where MathService is registered as Remote
C7_Witness ==
    \E w \in Workers :
        /\ wk[w].op = "dispatch" /\ wk[w].pc = "responded"
        /\ wk[w].service_class = EchoService
        /\ wk[w].reply.status = 400
        /\ instance_registry[wk[w].host][MathService] # 0
        /\ heap[wk[w].host][instance_registry[wk[w].host][MathService]].proxy_to_remote

----------------------------------------------------------------------------
(* Claims about the forwarded call *)

\* inner has left frame w
InnerLeft(w) == wk[w].pc \in {"called", "d_finally", "responded"}

\* C8: a forwarded call that gets a response other than 200 fails with the
\* response body as its message, having issued exactly one POST.
C8_NoRetry ==
    \A w \in Workers :
        /\ wk[w].posts <= 1
        /\ (wk[w].route = "remote" /\ wk[w].response.status \notin {0, 200})
              => /\ InnerLeft(w)
                 /\ wk[w].posts = 1
                 /\ wk[w].result = NoValue
                 /\ wk[w].error = wk[w].response.body
                 /\ IF wk[w].op = "call" THEN wk[w].raised = "Exception"
                    ELSE wk[w].caught = "Exception"

\* A direct call whose peer answered 500: it raised, after one POST
C8_Witness ==
    \E w \in Workers :
        /\ wk[w].op = "call" /\ At(w, "called")
        /\ wk[w].response.status = 500
        /\ wk[w].raised = "Exception"
        /\ wk[w].posts = 1

\* The direct calls that were forwarded: the envelope has been sent
Forwarded(w) == wk[w].op = "call" /\ wk[w].route = "remote"

\* The direct calls that were forwarded and have returned
ForwardedAndReturned(w) ==
    /\ wk[w].op = "call" /\ At(w, "called")
    /\ wk[w].route = "remote"
    /\ wk[w].raised = ""

\* What the same call returns on a host whose role is Local
NativeResult(w) == add_numbers(Tail(wk[w].args), wk[w].kwargs).value

\* The envelope sent holds the arguments after self and the keyword arguments
EnvelopeOf(w) ==
    /\ wk[w].request.body.kind = "object"
    /\ Len(wk[w].request.body.args) = Len(wk[w].args) - 1
    /\ \A k \in 1..Len(wk[w].request.body.args) :
          /\ wk[w].request.body.args[k].n = wk[w].args[k + 1].n
          /\ wk[w].request.body.args[k].t # "none"
    /\ \A k \in {"a", "b", "c"} : wk[w].request.body.kwargs[k].n = wk[w].kwargs[k].n

\* C9 as stated: a forwarded call sends its arguments without self, and when it
\* returns it gives the text of what the same call returns natively, whatever
\* its arguments.
C9_LocationTransparency ==
    \A w \in Workers :
        /\ Forwarded(w) => EnvelopeOf(w)
        /\ ForwardedAndReturned(w) => wk[w].result = PyText(Str(NativeResult(w)))

\* Every argument is a plain int
IntArguments(w) ==
    /\ \A k \in 2..Len(wk[w].args) : wk[w].args[k].t = "int"
    /\ \A k \in {"a", "b", "c"} : wk[w].kwargs[k].t \in {"int", "none"}

\* C9 amended: so it is when every argument is an int.
C9_LocationTransparencyOfInts ==
    \A w \in Workers :
        /\ Forwarded(w) => EnvelopeOf(w)
        /\ (ForwardedAndReturned(w) /\ IntArguments(w))
              => wk[w].result = PyText(Str(NativeResult(w)))

\* add_numbers(8, b=-24) forwarded by b returns "-16"
C9_Witness ==
    \E w \in Workers :
        /\ ForwardedAndReturned(w)
        /\ wk[w].kwargs.b = PyInt(-24)
        /\ wk[w].result = PyText(<<"-", "1", "6">>)

RECURSIVE ParseNat(_)
\* int(text) of a text of decimal digits
ParseNat(text) ==
    IF Len(text) = 0 THEN 0
    ELSE 10 * ParseNat(SubSeq(text, 1, Len(text) - 1))
         + (CHOOSE d \in 0..9 : Digits[d + 1] = text[Len(text)])

ParseInt(text) == IF text[1] = "-" THEN 0 - ParseNat(Tail(text)) ELSE ParseNat(text)

\* C10: a dispatch that found the service and the method, and whose invocation
\* raised nothing, answers 200 with the text of the value the method returned:
\* of an int, the decimal digits that read back as that int; "5" for
\* add_numbers with args [2, 3].
C10_SuccessIs200 ==
    \A w \in Workers :
        ( /\ Answered(w)
          /\ wk[w].service_method \in MethodNames
          /\ wk[w].caught = "" /\ wk[w].raised = "" )
            => /\ wk[w].reply.status = 200
               /\ wk[w].route = "local" => wk[w].result = NativeResult(w)
               /\ wk[w].result.t = "int" => ParseInt(wk[w].reply.body) = wk[w].result.n[1]
               /\ wk[w].result.t = "text" => wk[w].reply.body = wk[w].result.s
               /\ (Tail(wk[w].args) = <<PyInt(2), PyInt(3)>> /\ wk[w].kwargs = NoKwargs)
                      => wk[w].reply.body = <<"5">>

\* MathService.add_numbers with args [2, 3] answered 200 and "5"
C10_Witness ==
    \E w \in Workers :
        /\ Answered(w)
        /\ wk[w].args = <<PyRef(wk[w].service_instance), PyInt(2), PyInt(3)>>
        /\ wk[w].reply = [status |-> 200, body |-> <<"5">>]

----------------------------------------------------------------------------
(* Claims about configuration errors *)

\* The .ini file of host p is read, lists services, and either does not list
\* MathService or gives it no server address (no servers option, or an empty one)
NoServiceOrServers(p) ==
    /\ config[p].found /\ config[p].has_services
    /\ \/ MathService \notin Range(Split(config[p].services, ","))
       \/ ~config[p].has_servers
       \/ config[p].servers = <<>>

\* C11: on a host whose configuration does not list the service, or gives it no
\* server address, no Instance() call gets past _configure_instance and nothing
\* is put in the registry.
C11_ConfigurationErrorFails ==
    \A p \in Procs :
        NoServiceOrServers(p)
            => /\ instance_registry[p][MathService] = 0
               /\ \A w \in Workers :
                     (wk[w].op = "Instance" /\ wk[w].host = p)
                         => wk[w].pc \notin {"inst_reg", "inst_ret"}

\* The instance attributes that _configure_instance sets
FullyResolved(inst) == AttrNames \subseteq inst.attrs

\* C15: an instance that Instance() has returned, on the first call or a later
\* one, has hostname, service_name, servers and proxy_to_remote set and is the
\* instance the registry holds under the service's name.
C15_ReturnedInstanceIsResolved ==
    \A w \in Workers :
        (wk[w].op = "Instance" /\ At(w, "have_inst"))
            => /\ wk[w].service_instance # 0
               /\ FullyResolved(heap[wk[w].host][wk[w].service_instance])
               /\ instance_registry[wk[w].host][MathService] = wk[w].service_instance

----------------------------------------------------------------------------
(* Claims about the registry *)

\* Worker w takes the step that registers the instance Instance() holds
Registers(w) == wk[w].pc = "inst_reg" /\ wk'[w].pc = "inst_ret"

\* Worker w takes the step in which dispatch looks its service up
LooksUp(w) == wk[w].pc = "idle" /\ wk'[w].op = "dispatch"

\* C12: a registration stores the instance under the name, whatever was stored
\* there, and leaves every other entry as it was; nothing but a registration
\* changes the registry and no entry is ever removed, so what a lookup returns
\* is the instance most recently registered under the name.
C12_RegistryKeepsLatest ==
    [][ /\ \A w \in Workers :
              Registers(w)
                  => /\ instance_registry'[wk[w].host][MathService] = singleton[wk[w].host]
                     /\ \A p \in Procs, n \in ServiceNames :
                           <<p, n>> # <<wk[w].host, MathService>>
                               => instance_registry'[p][n] = instance_registry[p][n]
        /\ instance_registry' # instance_registry => \E w \in Workers : Registers(w)
        /\ \A p \in Procs, n \in ServiceNames :
              instance_registry[p][n] # 0 => instance_registry'[p][n] # 0
        /\ \A w \in Workers :
              LooksUp(w)
                  => wk'[w].service_instance
                         = instance_registry[wk'[w].host][wk'[w].service_class] ]_vars

\* A dispatch looked the service up and got the first instance, and a second
\* instance has since been registered under the same name
C12_Witness ==
    \E w \in Workers :
        /\ wk[w].op = "dispatch"
        /\ wk[w].service_instance = 1
        /\ instance_registry[wk[w].host][wk[w].service_class] = 2

----------------------------------------------------------------------------
(* Claims about where a call runs *)

\* C13: the method a dispatch invokes runs the local implementation and is
\* never forwarded to a peer, whatever the resolved role and whatever other
\* dispatches are doing; so a request that was forwarded is not forwarded on.
\* Stated of the hosts where the service was constructed once, so that no
\* Instance() resolves the role again while a dispatch runs.
C13_DispatchNeverForwards ==
    \A w \in Workers :
        (wk[w].op = "dispatch" /\ Len(heap[wk[w].host]) = 1)
            => wk[w].route # "remote" /\ wk[w].posts = 0

\* C14: a direct call on a service whose resolved role is Remote is forwarded
\* and does not run the local implementation, also when a dispatch for the
\* service is in progress in another worker.
C14_RemoteCallForwards ==
    \A w \in Workers :
        ( /\ wk[w].op = "call"
          /\ Len(heap[wk[w].host]) = 1
          /\ FullyResolved(heap[wk[w].host][wk[w].service_instance])
          /\ ResolvedRole(wk[w].host)
          /\ wk[w].route # ""
          /\ \A v \in Workers : wk[v].op = "dispatch" => wk[v].reply.status # 400 )
            => wk[w].route = "remote"

\* The server addresses configured for the service on host p
ConfiguredServers(p) == Range(Split(config[p].servers, ","))

\* Worker w is about to read the role in inner, and will read Remote
AboutToForward(w) ==
    /\ At(w, "inner")
    /\ FullyResolved(heap[wk[w].host][wk[w].service_instance])
    /\ heap[wk[w].host][wk[w].service_instance].proxy_to_remote

\* C16: a forwarded call is posted to one of the configured addresses of the
\* service, for the service name of the instance and the method called, and a
\* call that is about to be forwarded can go to each of the configured addresses.
C16_ForwardTargets ==
    \A w \in Workers :
        /\ wk[w].route = "remote"
              => /\ wk[w].request.to \in ConfiguredServers(wk[w].host)
                 /\ wk[w].request.to = wk[w].random_server
                 /\ wk[w].request.service_class
                        = heap[wk[w].host][wk[w].service_instance].service_name
                 /\ wk[w].request.service_method \in MethodNames
        /\ AboutToForward(w)
              => \A server \in ConfiguredServers(wk[w].host) :
                     ENABLED (Inner(w) /\ wk'[w].request.to = server)

\* A call forwarded to the second of two configured addresses
C16_Witness ==
    \E w \in Workers :
        /\ wk[w].op = "call"
        /\ wk[w].route = "remote"
        /\ Len(Split(config[wk[w].host].servers, ",")) = 2
        /\ wk[w].request.to = Split(config[wk[w].host].servers, ",")[2]

============================================================================
